---- MODULE Spec2Model ----
(***************************************************************************)
(* sqlx_helpers (src/src/lib.rs): a deadpool Manager for sqlx PgConnection *)
(* (PoolManager: create / recycle / detach) and two adapters that turn     *)
(* driver and pool errors into async_graphql FieldErrors (match_result,    *)
(* get_db_connection).                                                     *)
(*                                                                         *)
(* Resolver tasks (Requests) run the flow of the doc example of            *)
(* get_db_connection: get_db_connection(ctx).await?, a query, match_result *)
(* on its result, scope exit.  The pool itself (deadpool::managed::Pool)   *)
(* and the driver (sqlx) are collaborators outside this crate: the pool is *)
(* modelled from its contract as the specification describes it, the       *)
(* driver as nondeterministic outcomes of connect, ping and the query.     *)
(*                                                                         *)
(* Strings are sequences of tokens; a token is one of the characters that  *)
(* Rust's Debug rendering of a string escapes (QUOTE, BSLASH, NEWLINE), the *)
(* letter "n", a space, or a word of ordinary characters.                   *)
(***************************************************************************)
EXTENDS Integers, Sequences, FiniteSets, TLC

\* ------------------------------------------------------------- bounds
\* Number of concurrent resolver tasks.
NumRequests == 3
\* The pool's configured maximum size (Pool::new(mgr, max_size)).
MaxSize == 1
\* Connections the driver opens successfully over one run.
MaxConnIds == 2

Requests == 1..NumRequests
ConnIds == 1..MaxConnIds
NoConn == 0

\* ------------------------------------------------------------ strings
QUOTE == "\""
BSLASH == "\\"
NEWLINE == "\n"

RECURSIVE EscapeDebug(_)
\* core::fmt::Debug for str, the body between the quotes: QUOTE, BSLASH and
\* NEWLINE are escaped with a BSLASH, every other token is copied.
EscapeDebug(s) ==
    IF s = <<>> THEN <<>>
    ELSE LET c == Head(s)
             e == IF c = QUOTE THEN <<BSLASH, QUOTE>>
                  ELSE IF c = BSLASH THEN <<BSLASH, BSLASH>>
                  ELSE IF c = NEWLINE THEN <<BSLASH, "n">>
                  ELSE <<c>>
         IN e \o EscapeDebug(Tail(s))

\* "{:?}" of a String: the escaped body between two quotes.
DebugStr(s) == <<QUOTE>> \o EscapeDebug(s) \o <<QUOTE>>

RECURSIVE UnescapeDebug(_)
\* The reader's inverse of the escaped body (used to state what a message embeds).
UnescapeDebug(s) ==
    IF s = <<>> THEN <<>>
    ELSE IF Head(s) = BSLASH /\ Len(s) >= 2
         THEN <<IF s[2] = "n" THEN NEWLINE ELSE s[2]>> \o UnescapeDebug(Tail(Tail(s)))
         ELSE <<Head(s)>> \o UnescapeDebug(Tail(s))

IsPrefix(p, s) == Len(p) <= Len(s) /\ SubSeq(s, 1, Len(p)) = p

Contains(s, t) ==
    \E i \in 0..(Len(s) - Len(t)) : SubSeq(s, i + 1, i + Len(t)) = t

\* ------------------------------------------------------- driver errors
\* sqlx::Error values the driver reports, each with the text it carries.
NoError == [kind |-> "none", text |-> <<>>]
ConfigError == [kind |-> "Configuration", text |-> <<"relative URL without a base">>]
IoError == [kind |-> "Io", text |-> <<"connection", " ", "refused">>]
DbError == [kind |-> "Database", text |-> <<"no user", " ", QUOTE, "pg", QUOTE>>]
RowError == [kind |-> "RowNotFound", text |-> <<>>]
SqlxErrors == {ConfigError, IoError, DbError, RowError}

\* "{:?}" of a sqlx::Error: the variant's name and, in parentheses, the Debug
\* rendering of what it carries.
DebugErr(e) ==
    IF e.text = <<>> THEN <<e.kind>>
    ELSE <<e.kind, "(">> \o DebugStr(e.text) \o <<")">>

\* "{}" of a sqlx::Error.
DisplayErr(e) ==
    IF e.text = <<>> THEN <<"no rows returned">>
    ELSE <<"error: ">> \o e.text

\* --------------------------------------------------------- result types
\* Result<T, sqlx::Error> with T an integer payload (a row value, a connection id).
Ok(v) == [ok |-> TRUE, val |-> v, err |-> NoError]
Err(e) == [ok |-> FALSE, val |-> 0, err |-> e]

None == "None"
NoFieldError == [message |-> <<>>, extensions |-> None, source |-> None]
\* FieldResult<T>
FieldOk(v) == [ok |-> TRUE, val |-> v, ferr |-> NoFieldError]
FieldErr(fe) == [ok |-> FALSE, val |-> 0, ferr |-> fe]
NoResult == [ok |-> TRUE, val |-> -1, ferr |-> NoFieldError]

\* --------------------------------------------------------- PoolManager
Urls == {"postgres://db/app", "not a url"}
MalformedUrl == "not a url"

\* What PgConnection::connect(url) can answer: a malformed URL is refused every
\* time, a well-formed one connects or fails on the network or the server.
ConnectOutcomes(url) ==
    IF url = MalformedUrl THEN {Err(ConfigError)}
    ELSE {Ok(1), Err(DbError)}

\* What obj.ping() can answer.
PingOutcomes == {Ok(0), Err(IoError)}

\* A connect oracle: the answers the driver gives to successive connect calls.
ConnectOracles(url) ==
    {<<a, b>> : a \in ConnectOutcomes(url), b \in ConnectOutcomes(url)}

\* PoolManager::create with one retry after a failed connect.
PoolManager_create_retry(self, oracle) ==
    IF oracle[1].ok
    THEN [mgr |-> self, url |-> self.url, attempts |-> 1,
          connect |-> oracle[1], result |-> oracle[1]]
    ELSE [mgr |-> self, url |-> self.url, attempts |-> 2,
          connect |-> oracle[1], result |-> oracle[2]]

\* PoolManager::create: PgConnection::connect(&self.url).await, its result
\* returned as it is.  Yields the manager after the call, the url connected
\* to, the number of connect calls made, the first connect answer and the
\* returned result.
PoolManager_create(self, oracle) ==
    [mgr |-> self, url |-> self.url, attempts |-> 1,
     connect |-> oracle[1], result |-> oracle[1]]

\* PoolManager::recycle that never looks at the ping's answer.
PoolManager_recycle_always_ok(self, obj, ping) ==
    [mgr |-> self, obj |-> obj, result |-> Ok(0)]

\* PoolManager::recycle: Ok(obj.ping().await?): Ok(()) when the ping answers
\* Ok, and the ping's error (as RecycleError::Backend, through ?) otherwise.
PoolManager_recycle(self, obj, ping) ==
    [mgr |-> self, obj |-> obj,
     result |-> IF ping.ok THEN Ok(0) ELSE Err(ping.err)]

\* PoolManager::detach that closes the connection it is given.
PoolManager_detach_closing(self, obj) ==
    [mgr |-> self, obj |-> [obj EXCEPT !.open = FALSE]]

\* PoolManager::detach: an empty body.
PoolManager_detach(self, obj) ==
    [mgr |-> self, obj |-> obj]

\* ------------------------------------------------------- error adapters
\* match_result that drops the space between the prefix and the rendering.
match_result_no_space(res, err_msg) ==
    IF res.ok THEN FieldOk(res.val)
    ELSE FieldErr([message |-> err_msg \o DebugErr(res.err),
                   extensions |-> None, source |-> None])

\* match_result that answers every result with an error.
match_result_always_err(res, err_msg) ==
    FieldErr([message |-> err_msg \o <<" ">> \o DebugErr(res.err),
              extensions |-> None, source |-> None])

\* match_result: Ok(res) => Ok(res); Err(e) => FieldError with
\* format!("{} {:?}", err_msg, e) and no extensions, no source.
match_result(res, err_msg) ==
    IF res.ok THEN FieldOk(res.val)
    ELSE FieldErr([message |-> err_msg \o <<" ">> \o DebugErr(res.err),
                   extensions |-> None, source |-> None])

\* deadpool's PoolError: without timeouts configured, Backend(e) of a failed create.
NoPoolError == [kind |-> "none", inner |-> NoError]
Backend(e) == [kind |-> "Backend", inner |-> e]
PoolOk(c) == [ok |-> TRUE, val |-> c, perr |-> NoPoolError]
PoolErr(pe) == [ok |-> FALSE, val |-> NoConn, perr |-> pe]
NoPoolResult == [ok |-> FALSE, val |-> NoConn, perr |-> NoPoolError]

\* e.to_string() of a PoolError.
PoolErrToString(pe) ==
    <<"An error occured while creating a new object: ">> \o DisplayErr(pe.inner)

\* The literal text of the format string before its {:?}.
ConnectivityPrefix == <<"Database connectivity error", ":", " ">>

\* The map_err of get_db_connection with the error's extensions filled in.
get_db_connection_map_ext(poolRes) ==
    IF poolRes.ok THEN FieldOk(poolRes.val)
    ELSE FieldErr([message |-> ConnectivityPrefix \o DebugStr(PoolErrToString(poolRes.perr)),
                   extensions |-> "Some", source |-> None])

\* The map_err of get_db_connection answering with the bare prefix.
get_db_connection_map_bare(poolRes) ==
    IF poolRes.ok THEN FieldOk(poolRes.val)
    ELSE FieldErr([message |-> <<"Database connectivity error">>,
                   extensions |-> None, source |-> None])

\* pool.get().await.map_err(|e| FieldError { message:
\* format!("Database connectivity error: {:?}", e.to_string()), .. }).
get_db_connection_map(poolRes) ==
    IF poolRes.ok THEN FieldOk(poolRes.val)
    ELSE FieldErr([message |-> ConnectivityPrefix \o DebugStr(PoolErrToString(poolRes.perr)),
                   extensions |-> None, source |-> None])

\* ctx.data::<Pool>().unwrap() that goes on without a pool.
ctx_data_unwrap_lenient(hasPool) == "pool"

\* ctx.data::<Pool>().unwrap(): the pool when one is registered, a panic otherwise.
ctx_data_unwrap(hasPool) == IF hasPool THEN "pool" ELSE "panic"

\* ---------------------------------------------------------------- state
VARIABLES
    pc,            \* each task's position in the resolver
    ctxPool,       \* whether the task's context holds a Pool
    handle,        \* the Object<PoolManager> a task holds (NoConn: none)
    owned,         \* the connection a task took out of the pool for good
    getCalls,      \* pool.get() calls issued by the task's current get_db_connection
    poolRes,       \* the outcome of the task's pool.get()
    ret,           \* what get_db_connection returned to the task
    mr,            \* the task's match_result call: input, prefix, output
    permits,       \* the pool's semaphore
    idle,          \* the pool's queue of idle connections
    conn,          \* every connection object: its url and whether it is open
    nextId,        \* the next connection the driver opens
    recycleFailed, \* connections whose recycle reported failure
    lastOp,        \* the last call of a PoolManager operation and what it did
    mgr,           \* the PoolManager
    url0,          \* the url the PoolManager was constructed with
    procAlive      \* whether the process still runs

vars == <<pc, ctxPool, handle, owned, getCalls, poolRes, ret, mr, permits, idle,
          conn, nextId, recycleFailed, lastOp, mgr, url0, procAlive>>

NoObj == [url |-> "", open |-> FALSE]
NoMatch == [called |-> FALSE, res |-> Ok(0), prefix |-> <<>>, out |-> NoResult]
\* A PoolManager call as lastOp records it: the operation, the url it connected
\* to and the connect calls it made (create), the driver's answer to its
\* connect or ping, its result, and the connection object before and after.
NoOp == [kind |-> "none", url |-> "", attempts |-> 0, answer |-> Ok(0),
         result |-> Ok(0), before |-> NoObj, after |-> NoObj]

\* The inputs of match_result the resolvers draw from.
QueryResults == {Ok(7), Err(RowError), Err(DbError)}
Prefixes == {<<"Failed to get my_data">>, <<"bad", " ", QUOTE>>}

\* What a panic does to the process: unwind the panicking task only, or abort.
PanicOutcomes == {"unwind", "abort"}

\* ----------------------------------------------------------- the pool
\* deadpool::managed::Pool<PoolManager>: a semaphore of max_size permits and a
\* FIFO queue of idle objects.  get() takes a permit (waiting for one), then
\* pops idle objects, recycling each one and dropping those whose recycle
\* fails, until one passes; with the queue empty it creates an object, and a
\* failed create gives the permit back and is returned as PoolError::Backend.
\* Dropping an Object pushes its connection on the queue and gives the permit
\* back; Object::take detaches the connection and gives the permit back.

\* A semaphore that lets every caller through.
Pool_has_permit_unbounded(n) == TRUE

\* Whether the semaphore has a permit to give.
Pool_has_permit(n) == n > 0

\* A pop that hands out the head of the queue and leaves it queued.
Pool_pop_peek(q) == [obj |-> Head(q), rest |-> q]

\* The queue's pop.
Pool_pop(q) == [obj |-> Head(q), rest |-> Tail(q)]

\* The queue's push.
Pool_push(q, c) == Append(q, c)

\* Connections the pool owns: checked out or idle.
CheckedOut == {r \in Requests : handle[r] # NoConn}
LiveCount == Cardinality(CheckedOut) + Len(idle)

Init ==
    /\ pc = [r \in Requests |-> "ready"]
    /\ ctxPool = [r \in Requests |-> TRUE]
    /\ handle = [r \in Requests |-> NoConn]
    /\ owned = [r \in Requests |-> NoConn]
    /\ getCalls = [r \in Requests |-> 0]
    /\ poolRes = [r \in Requests |-> NoPoolResult]
    /\ ret = [r \in Requests |-> NoResult]
    /\ mr = [r \in Requests |-> NoMatch]
    /\ permits = MaxSize
    /\ idle = <<>>
    /\ conn = [c \in ConnIds |-> NoObj]
    /\ nextId = 1
    /\ recycleFailed = {}
    /\ lastOp = NoOp
    /\ url0 \in Urls
    /\ mgr = [url |-> url0]
    /\ procAlive = TRUE

\* get_db_connection up to its await: the context lookup and its unwrap.  With
\* a pool the task goes on to pool.get(); without one the unwrap panics, which
\* unwinds the task or aborts the process.
Call(r) ==
    /\ procAlive
    /\ pc[r] = "ready"
    /\ \E hasPool \in BOOLEAN :
         /\ ctxPool' = [ctxPool EXCEPT ![r] = hasPool]
         /\ IF ctx_data_unwrap(hasPool) = "pool"
            THEN /\ pc' = [pc EXCEPT ![r] = "acquire"]
                 /\ getCalls' = [getCalls EXCEPT ![r] = @ + 1]
                 /\ procAlive' = procAlive
            ELSE /\ pc' = [pc EXCEPT ![r] = "panicked"]
                 /\ getCalls' = getCalls
                 /\ \E o \in PanicOutcomes : procAlive' = (o = "unwind")
    /\ UNCHANGED <<handle, owned, poolRes, ret, mr, permits, idle, conn, nextId,
                   recycleFailed, lastOp, mgr, url0>>

\* pool.get(): the semaphore gives the task a permit.
AcquirePermit(r) ==
    /\ procAlive
    /\ pc[r] = "acquire"
    /\ Pool_has_permit(permits)
    /\ permits' = permits - 1
    /\ pc' = [pc EXCEPT ![r] = "loop"]
    /\ UNCHANGED <<ctxPool, handle, owned, getCalls, poolRes, ret, mr, idle, conn,
                   nextId, recycleFailed, lastOp, mgr, url0, procAlive>>

\* pool.get(): an idle object is popped and recycled.  One that passes is the
\* Object get() returns, and get_db_connection returns it; one that fails is
\* dropped and the loop goes on.
PopRecycle(r) ==
    /\ procAlive
    /\ pc[r] = "loop"
    /\ idle # <<>>
    /\ \E ping \in PingOutcomes :
         LET p == Pool_pop(idle)
             c == p.obj
             rr == PoolManager_recycle(mgr, conn[c], ping)
         IN /\ idle' = p.rest
            /\ mgr' = rr.mgr
            /\ lastOp' = [NoOp EXCEPT !.kind = "recycle", !.answer = ping,
                                      !.result = rr.result,
                                      !.before = conn[c], !.after = rr.obj]
            /\ IF rr.result.ok
               THEN /\ conn' = [conn EXCEPT ![c] = rr.obj]
                    /\ handle' = [handle EXCEPT ![r] = c]
                    /\ poolRes' = [poolRes EXCEPT ![r] = PoolOk(c)]
                    /\ ret' = [ret EXCEPT ![r] = get_db_connection_map(PoolOk(c))]
                    /\ pc' = [pc EXCEPT ![r] = "holding"]
                    /\ recycleFailed' = recycleFailed
               ELSE /\ conn' = [conn EXCEPT ![c] = [rr.obj EXCEPT !.open = FALSE]]
                    /\ recycleFailed' = recycleFailed \cup {c}
                    /\ UNCHANGED <<handle, poolRes, ret, pc>>
    /\ UNCHANGED <<ctxPool, owned, getCalls, mr, permits, nextId, url0, procAlive>>

\* pool.get(): the queue is empty and the manager creates a connection.  A
\* created one is the Object returned; a failed create gives the permit back
\* and get_db_connection maps PoolError::Backend to its FieldError.
Create(r) ==
    /\ procAlive
    /\ pc[r] = "loop"
    /\ idle = <<>>
    /\ \E oracle \in ConnectOracles(mgr.url) :
         LET cr == PoolManager_create(mgr, oracle)
         IN /\ cr.result.ok => nextId <= MaxConnIds
            /\ mgr' = cr.mgr
            /\ lastOp' = [NoOp EXCEPT !.kind = "create", !.url = cr.url,
                                      !.attempts = cr.attempts,
                                      !.answer = cr.connect, !.result = cr.result]
            /\ IF cr.result.ok
               THEN /\ conn' = [conn EXCEPT ![nextId] = [url |-> cr.url, open |-> TRUE]]
                    /\ nextId' = nextId + 1
                    /\ handle' = [handle EXCEPT ![r] = nextId]
                    /\ poolRes' = [poolRes EXCEPT ![r] = PoolOk(nextId)]
                    /\ ret' = [ret EXCEPT ![r] = get_db_connection_map(PoolOk(nextId))]
                    /\ pc' = [pc EXCEPT ![r] = "holding"]
                    /\ permits' = permits
               ELSE /\ permits' = permits + 1
                    /\ poolRes' = [poolRes EXCEPT ![r] = PoolErr(Backend(cr.result.err))]
                    /\ ret' = [ret EXCEPT ![r] =
                                 get_db_connection_map(PoolErr(Backend(cr.result.err)))]
                    /\ pc' = [pc EXCEPT ![r] = "failed"]
                    /\ UNCHANGED <<conn, nextId, handle>>
    /\ UNCHANGED <<ctxPool, owned, getCalls, mr, idle, recycleFailed, url0,
                   procAlive>>

\* The resolver's query on the connection and match_result on its result.
Query(r) ==
    /\ procAlive
    /\ pc[r] = "holding"
    /\ \E res \in QueryResults, p \in Prefixes :
         mr' = [mr EXCEPT ![r] = [called |-> TRUE, res |-> res, prefix |-> p,
                                  out |-> match_result(res, p)]]
    /\ pc' = [pc EXCEPT ![r] = "matched"]
    /\ UNCHANGED <<ctxPool, handle, owned, getCalls, poolRes, ret, permits, idle, conn,
                   nextId, recycleFailed, lastOp, mgr, url0, procAlive>>

\* Object::take: the holder takes the connection out of the pool for good; the
\* pool calls the manager's detach and gives the permit back.
Take(r) ==
    /\ procAlive
    /\ pc[r] = "holding"
    /\ LET c == handle[r]
           d == PoolManager_detach(mgr, conn[c])
       IN /\ mgr' = d.mgr
          /\ conn' = [conn EXCEPT ![c] = d.obj]
          /\ lastOp' = [NoOp EXCEPT !.kind = "detach", !.before = conn[c],
                                    !.after = d.obj]
          /\ owned' = [owned EXCEPT ![r] = c]
    /\ handle' = [handle EXCEPT ![r] = NoConn]
    /\ permits' = permits + 1
    /\ pc' = [pc EXCEPT ![r] = "took"]
    /\ UNCHANGED <<ctxPool, getCalls, poolRes, ret, mr, idle, nextId, recycleFailed,
                   url0, procAlive>>

\* The resolver's scope ends, after match_result (on its Ok and on its Err) or
\* before the query: the Object is dropped, which pushes its connection on the
\* idle queue and gives the permit back; a connection taken out of the pool is
\* closed by its own drop.  The resolver's locals go with the scope.
ScopeExit(r) ==
    /\ procAlive
    /\ pc[r] \in {"holding", "matched", "took"}
    /\ IF handle[r] # NoConn
       THEN /\ idle' = Pool_push(idle, handle[r])
            /\ permits' = permits + 1
            /\ conn' = conn
       ELSE /\ conn' = [conn EXCEPT ![owned[r]] = [@ EXCEPT !.open = FALSE]]
            /\ UNCHANGED <<idle, permits>>
    /\ handle' = [handle EXCEPT ![r] = NoConn]
    /\ owned' = [owned EXCEPT ![r] = NoConn]
    /\ pc' = [pc EXCEPT ![r] = "done"]
    /\ poolRes' = [poolRes EXCEPT ![r] = NoPoolResult]
    /\ ret' = [ret EXCEPT ![r] = NoResult]
    /\ mr' = [mr EXCEPT ![r] = NoMatch]
    /\ UNCHANGED <<ctxPool, getCalls, nextId, recycleFailed, lastOp, mgr, url0,
                   procAlive>>

\* The task is done with its request (finished, failed, or unwound by a panic)
\* and serves the next one.
NextRequest(r) ==
    /\ procAlive
    /\ pc[r] \in {"done", "failed", "panicked"}
    /\ pc' = [pc EXCEPT ![r] = "ready"]
    /\ ctxPool' = [ctxPool EXCEPT ![r] = TRUE]
    /\ getCalls' = [getCalls EXCEPT ![r] = 0]
    /\ poolRes' = [poolRes EXCEPT ![r] = NoPoolResult]
    /\ ret' = [ret EXCEPT ![r] = NoResult]
    /\ mr' = [mr EXCEPT ![r] = NoMatch]
    /\ UNCHANGED <<handle, owned, permits, idle, conn, nextId, recycleFailed,
                   lastOp, mgr, url0, procAlive>>

Next ==
    \E r \in Requests :
        \/ Call(r)
        \/ AcquirePermit(r)
        \/ PopRecycle(r)
        \/ Create(r)
        \/ Query(r)
        \/ Take(r)
        \/ ScopeExit(r)
        \/ NextRequest(r)

Spec == Init /\ [][Next]_vars

\* The scheduling the runtime gives: a task whose pool.get() can go on is
\* polled, and the semaphore serves its waiters in turn.
FairSpec ==
    /\ Spec
    /\ \A r \in Requests :
         /\ SF_vars(AcquirePermit(r))
         /\ WF_vars(PopRecycle(r))
         /\ WF_vars(Create(r))

\* ---------------------------------------------------------------- claims
Range(q) == {q[i] : i \in DOMAIN q}
Finished == {"ready", "done", "failed", "panicked"}
BareFieldError(fe) == fe.extensions = None /\ fe.source = None

\* C1: match_result on a success Ok(v) returns Ok(v), v unchanged, never an
\* error, and whatever the prefix is.
C1_OkPassesThrough ==
    \A r \in Requests :
        (mr[r].called /\ mr[r].res.ok) =>
            /\ mr[r].out.ok
            /\ mr[r].out.val = mr[r].res.val
            /\ mr[r].out.ferr = NoFieldError
            /\ \A p \in Prefixes : match_result(mr[r].res, p) = mr[r].out

C1_Witness ==
    \E r \in Requests : mr[r].called /\ mr[r].res = Ok(7) /\ mr[r].out = FieldOk(7)

\* C2: match_result on a failure Err(e) with prefix P returns an error whose
\* message is P, one space, the debug rendering of e: it starts with P and
\* contains the rendering.
C2_ErrMessage ==
    \A r \in Requests :
        (mr[r].called /\ ~mr[r].res.ok) =>
            /\ ~mr[r].out.ok
            /\ mr[r].out.ferr.message =
                   mr[r].prefix \o <<" ">> \o DebugErr(mr[r].res.err)
            /\ IsPrefix(mr[r].prefix, mr[r].out.ferr.message)
            /\ Contains(mr[r].out.ferr.message, DebugErr(mr[r].res.err))

C2_Witness ==
    \E r \in Requests :
        /\ mr[r].called
        /\ mr[r].res = Err(DbError)
        /\ mr[r].prefix = <<"bad", " ", QUOTE>>
        /\ ~mr[r].out.ok

\* C3 as stated: a get_db_connection call on a context without a Pool
\* terminates the process.
C3_PanicTerminatesProcess ==
    \A r \in Requests : pc[r] = "panicked" => ~procAlive

\* C3 as amended: a get_db_connection call on a context without a Pool panics:
\* it returns no value, neither a handle nor an error, and asks no pool for a
\* connection; a call on a context with a Pool never panics.
C3_NoPoolPanics ==
    \A r \in Requests :
        /\ (pc[r] # "ready" /\ ~ctxPool[r]) =>
               /\ pc[r] = "panicked"
               /\ ret[r] = NoResult
               /\ poolRes[r] = NoPoolResult
               /\ getCalls[r] = 0
               /\ handle[r] = NoConn
        /\ pc[r] = "panicked" => ~ctxPool[r]

C3_Witness ==
    \E r, q \in Requests :
        /\ pc[r] = "panicked" /\ procAlive
        /\ pc[q] = "holding" /\ ctxPool[q]

\* What a failed get_db_connection returned: an error whose message is the
\* connectivity prefix followed by the quoted, escaped description of the
\* pool's error, from which the description reads back.
ConnectivityError(r) ==
    LET m == ret[r].ferr.message
        k == Len(ConnectivityPrefix)
    IN /\ ~ret[r].ok
       /\ Contains(m, <<"Database connectivity error">>)
       /\ IsPrefix(ConnectivityPrefix, m)
       /\ Len(m) >= k + 2
       /\ m[k + 1] = QUOTE /\ m[Len(m)] = QUOTE
       /\ UnescapeDebug(SubSeq(m, k + 2, Len(m) - 1)) = PoolErrToString(poolRes[r].perr)

C4_Safety ==
    /\ \A r \in Requests : pc[r] = "failed" => (~poolRes[r].ok /\ ConnectivityError(r))
    /\ url0 = MalformedUrl =>
           \A r \in Requests :
               /\ handle[r] = NoConn
               /\ pc[r] \notin {"holding", "matched", "took"}
               /\ ctxPool[r] => pc[r] # "panicked"

\* C4: with a registered pool whose manager's create fails on every attempt
\* (and so no idle connection), get_db_connection ends, without a handle and
\* without a panic, by returning an error whose message contains "Database
\* connectivity error" and embeds the pool's error description.
C4_CreateFailsConnectivityError ==
    /\ []C4_Safety
    /\ \A r \in Requests :
         (url0 = MalformedUrl /\ pc[r] = "acquire") ~> (pc[r] = "failed" \/ ~procAlive)

C4_Witness ==
    \E r \in Requests :
        /\ url0 = MalformedUrl
        /\ pc[r] = "failed"
        /\ lastOp.kind = "create" /\ lastOp.result = Err(ConfigError)
        /\ idle = <<>>

\* C5: the pool's live connections (checked out plus idle) never exceed its
\* maximum size, and with that many handles checked out a caller waits.
C5_LiveWithinMax ==
    /\ LiveCount <= MaxSize
    /\ Cardinality(CheckedOut) = MaxSize =>
           \A r \in Requests : ~ENABLED AcquirePermit(r)

C5_Witness ==
    /\ Cardinality(CheckedOut) = MaxSize
    /\ \E r \in Requests : pc[r] = "acquire"

\* C6: recycle reports success exactly when the ping succeeds and failure
\* (the ping's error) exactly when it fails; a connection whose recycle
\* reported failure is dropped: no task holds it and it is not idle.
C6_RecycleFollowsPing ==
    /\ lastOp.kind = "recycle" =>
           /\ lastOp.result.ok <=> lastOp.answer.ok
           /\ ~lastOp.answer.ok => lastOp.result = Err(lastOp.answer.err)
    /\ \A c \in recycleFailed :
           /\ c \notin Range(idle)
           /\ \A r \in Requests : handle[r] # c /\ owned[r] # c
           /\ ~conn[c].open

C6_Witness ==
    /\ recycleFailed # {}
    /\ lastOp.kind = "recycle" /\ ~lastOp.answer.ok /\ ~lastOp.result.ok
    /\ \E r \in Requests : pc[r] = "loop"

\* C7: every error get_db_connection or match_result returns has a message
\* and neither extensions nor source.
C7_ErrorsAreBare ==
    \A r \in Requests :
        /\ ~ret[r].ok =>
               (BareFieldError(ret[r].ferr) /\ ret[r].ferr.message # <<>>)
        /\ (mr[r].called /\ ~mr[r].out.ok) =>
               (BareFieldError(mr[r].out.ferr) /\ mr[r].out.ferr.message # <<>>)

C7_Witness ==
    \E r, q \in Requests :
        /\ pc[r] = "failed" /\ ~ret[r].ok
        /\ mr[q].called /\ ~mr[q].out.ok

C9_NoRetry ==
    /\ \A r \in Requests :
           /\ getCalls[r] <= 1
           /\ pc[r] \in {"holding", "matched", "took", "failed"} =>
                  /\ getCalls[r] = 1
                  /\ ret[r].ok <=> poolRes[r].ok
                  /\ ret[r].ok => ret[r].val = poolRes[r].val
                  /\ ~ret[r].ok => ConnectivityError(r)
    /\ lastOp.kind = "create" =>
           (lastOp.attempts = 1 /\ lastOp.result = lastOp.answer)

C9_Witness ==
    /\ lastOp.kind = "create" /\ ~lastOp.result.ok
    /\ \E r \in Requests : pc[r] = "failed" /\ getCalls[r] = 1

\* C10: the manager's url stays the one it was constructed with, every create
\* connects to it, and detach changes neither the connection nor the manager.
C10_UrlFixedDetachNoop ==
    /\ mgr = [url |-> url0]
    /\ lastOp.kind = "create" => lastOp.url = url0
    /\ lastOp.kind = "detach" => (lastOp.after = lastOp.before /\ lastOp.after.open)
    /\ \A c \in ConnIds : conn[c].open => conn[c].url = url0

C10_Witness ==
    /\ lastOp.kind = "detach"
    /\ recycleFailed # {}
    /\ nextId > MaxSize

====
